---- MODULE Spec2Model ----
(***************************************************************************)
(* Model of hbctranslate's bilingual line matcher (matcher.go) and of the  *)
(* dual-cursor synchronization driver (main.go: synchronizeDocuments,      *)
(* getNextNonEmptyLine).                                                   *)
(*                                                                         *)
(* A text is a sequence of Unicode code points (Go ranges over a string    *)
(* rune by rune):                                                          *)
(*    9 '\t'   10 '\n'   13 '\r'   32 ' '   34 '"'   46 '.'   49 '1'       *)
(*   65 'A'    97 'a'    98 'b'    20013 U+4E2D (a CJK ideograph)          *)
(***************************************************************************)
EXTENDS Integers, Sequences, FiniteSets, TLC

VARIABLES
    \* ---- the documents and the command line (processDualDocuments)
    sourceDoc, targetDoc, startLoop,
    \* ---- the two DocumentCursor objects
    sourceCursor, targetCursor,
    \* ---- locals of synchronizeDocuments
    sourceLineNum, targetLineNum, previousFeatures, lastProcessedWasChinese,
    tabsToAddMap, sourceLineInfo, sourceKey, sourceFeatures, loopID,
    \* ---- position in synchronizeDocuments, which stream ended its main loop,
    \* ---- which stream answered "end of document", the result
    pc, loopExit, exhausted, err,
    \* ---- requests sent to the document service, lines pulled (observations)
    formatRequests, lastApplyErr, insertRequests, sourcePulls, targetPulls,
    \* ---- what the latest finished run with start-loop 1 left behind
    baseline,
    \* ---- the matcher exercised on its own: a text, its key, the last edit
    text, key, prevKey, lastOp,
    \* ---- AnalyzeLineMatch exercised on its own: the arguments of a call and
    \* ---- the decision it returned
    analysis

driverVars == <<sourceDoc, targetDoc, startLoop, sourceCursor, targetCursor,
                sourceLineNum, targetLineNum, previousFeatures,
                lastProcessedWasChinese, tabsToAddMap, sourceLineInfo, sourceKey,
                sourceFeatures, loopID, pc, loopExit, exhausted, err, formatRequests,
                lastApplyErr, insertRequests, sourcePulls, targetPulls, baseline>>

matcherVars == <<text, key, prevKey, lastOp, analysis>>

vars == <<driverVars, matcherVars>>

(***************************************************************************)
(* Bounds of the model.                                                    *)
(***************************************************************************)
MaxLen == 4          \* longest text given to the matcher on its own
MaxSrcElems == 2     \* structural elements of the source document
MaxTgtElems == 2     \* structural elements of the target document
MaxElems == 4        \* structural elements of the two documents together
MaxStartLoop == 3    \* largest --start-loop value
MaxArgLen == 2       \* longest text given to AnalyzeLineMatch on its own

\* The value of a one-element set: Only({F(x) : x \in {e}}) is F(e), with e
\* evaluated once.
Only(S) == CHOOSE x \in S : TRUE

(***************************************************************************)
(* matcher.go                                                              *)
(***************************************************************************)

\* Mutant of IsKeyWhitespace: only the space is dropped.
IsKeyWhitespaceSpaceOnly(r) == r = 32

\* The four characters generateLineKey drops (matcher.go:83), also the ones
\* startsWithChinese skips.
IsKeyWhitespace(r) == r \in {32, 9, 10, 13}

\* unicode.IsSpace, as used by strings.TrimSpace.
IsSpace(r) == r \in {9, 10, 11, 12, 13, 32, 133, 160}

\* Mutant of IsEnglishLetter: a digit starts the key too.
IsEnglishLetterOrDigit(r) ==
    (r >= 65 /\ r <= 90) \/ (r >= 97 /\ r <= 122) \/ (r >= 48 /\ r <= 57)

\* (r >= 'A' && r <= 'Z') || (r >= 'a' && r <= 'z')
IsEnglishLetter(r) == (r >= 65 /\ r <= 90) \/ (r >= 97 /\ r <= 122)

\* r >= U+4E00 && r <= U+9FFF (matcher.go:31)
IsChineseRune(r) == r >= 19968 /\ r <= 40959

\* strings.ToLower on one rune; on the code points used here only the ASCII
\* capitals have a lower-case form.
ToLowerRune(r) == IF r >= 65 /\ r <= 90 THEN r + 32 ELSE r

ToLower(s) == [i \in 1..Len(s) |-> ToLowerRune(s[i])]

\* strings.TrimSpace
RECURSIVE TrimLeft(_)
TrimLeft(s) ==
    IF s # <<>> /\ IsSpace(Head(s)) THEN TrimLeft(Tail(s)) ELSE s

RECURSIVE TrimRight(_)
TrimRight(s) ==
    IF s # <<>> /\ IsSpace(s[Len(s)]) THEN TrimRight(SubSeq(s, 1, Len(s) - 1)) ELSE s

TrimSpace(s) == Only({TrimRight(t) : t \in {TrimLeft(s)}})

containsChinese(t) == \E i \in 1..Len(t) : IsChineseRune(t[i])

\* The loop of matcher.go:64-70; 0 stands for Go's -1, positions are 1-based.
FirstEnglishIndex(t) ==
    IF \E i \in 1..Len(t) : IsEnglishLetter(t[i])
    THEN CHOOSE i \in 1..Len(t) :
            /\ IsEnglishLetter(t[i])
            /\ \A j \in 1..(i - 1) : ~IsEnglishLetter(t[j])
    ELSE 0

\* Mutant of RemoveKeyWhitespace: quotation marks are dropped as well.
RemoveKeyWhitespaceAndQuotes(s) ==
    SelectSeq(s, LAMBDA r : ~IsKeyWhitespace(r) /\ r \notin {34, 39})

RemoveKeyWhitespace(s) == SelectSeq(s, LAMBDA r : ~IsKeyWhitespace(r))

\* Mutant of StripEnumerationPrefix: nothing is dropped.
StripEnumerationPrefixNever(k) == k

\* matcher.go:91: len(key) >= 2 && key[1] == '.'.  The key starts with an ASCII
\* letter (one byte), so byte 1 is the first byte of the second rune and is '.'
\* exactly when that rune is '.'; key[2:] drops two runes.
StripEnumerationPrefix(k) ==
    IF Len(k) >= 2 /\ k[2] = 46 THEN SubSeq(k, 3, Len(k)) ELSE k

generateLineKey(t) ==
    Only({ IF firstEnglishIndex = 0
           THEN <<>>
           ELSE LET englishPortion == SubSeq(t, firstEnglishIndex, Len(t))
                    result == RemoveKeyWhitespace(englishPortion)
                IN  Only({StripEnumerationPrefix(key1) : key1 \in {ToLower(result)}})
         : firstEnglishIndex \in {FirstEnglishIndex(t)} })

\* Mutant of classifyLineType: a text that is not blank and has neither
\* script is taken as English.
classifyLineTypeDefaultEnglish(t) ==
    IF Len(TrimSpace(t)) = 0
    THEN "Empty"
    ELSE LET hasChinese == containsChinese(t)
             hasEnglish == generateLineKey(t) # <<>>
         IN  IF hasChinese /\ hasEnglish THEN "Mixed"
             ELSE IF hasChinese THEN "Chinese"
             ELSE "English"

classifyLineType(t) ==
    IF Len(TrimSpace(t)) = 0
    THEN "Empty"
    ELSE LET hasChinese == containsChinese(t)
             hasEnglish == generateLineKey(t) # <<>>
         IN  IF hasChinese /\ hasEnglish THEN "Mixed"
             ELSE IF hasChinese THEN "Chinese"
             ELSE IF hasEnglish THEN "English"
             ELSE "Empty"

\* A nil *LineFeatures.
NilFeatures == [nil |-> TRUE]

shouldAddEmptyLine(lineText) ==
    classifyLineType(lineText) \in {"Chinese", "Mixed"}

\* Mutant of shouldFollowPreviousLineStyle: a mixed line does not follow.
shouldFollowPreviousLineStyleChineseOnly(lineText, prev) ==
    classifyLineType(lineText) = "Chinese" /\ prev # NilFeatures

shouldFollowPreviousLineStyle(lineText, prev) ==
    classifyLineType(lineText) \in {"Chinese", "Mixed"} /\ prev # NilFeatures

\* Mutant of shouldAdvanceSourceCursor: the source is never advanced.
shouldAdvanceSourceCursorNever(flag) == FALSE

shouldAdvanceSourceCursor(flag) == flag

\* Mutant of linesMatch: two empty keys do not match.
linesMatchNonEmpty(sKey, tKey) == sKey = tKey /\ sKey # <<>>

linesMatch(sKey, tKey) == sKey = tKey

\* Mutant of AnalyzeLineMatch: the type is taken from the two texts together.
AnalyzeLineMatchTypeOfBoth(sourceText, targetText, prev, flag) ==
    [ LineType              |-> classifyLineType(sourceText \o targetText),
      ShouldAddEmptyLine    |-> shouldAddEmptyLine(targetText),
      ShouldFollowPrevStyle |-> shouldFollowPreviousLineStyle(targetText, prev),
      ShouldAdvanceSource   |-> shouldAdvanceSourceCursor(flag),
      LinesMatch            |-> linesMatch(generateLineKey(sourceText),
                                           generateLineKey(targetText)) ]

AnalyzeLineMatch(sourceText, targetText, prev, flag) ==
    [ LineType              |-> classifyLineType(targetText),
      ShouldAddEmptyLine    |-> shouldAddEmptyLine(targetText),
      ShouldFollowPrevStyle |-> shouldFollowPreviousLineStyle(targetText, prev),
      ShouldAdvanceSource   |-> shouldAdvanceSourceCursor(flag),
      LinesMatch            |-> linesMatch(generateLineKey(sourceText),
                                           generateLineKey(targetText)) ]

(***************************************************************************)
(* Documents.  A document body is a sequence of structural elements; an    *)
(* element is a paragraph (with its runs of text) or something else (a     *)
(* section break, a table).  Offsets count code points, the body starts at *)
(* offset 1.                                                               *)
(***************************************************************************)
Para(runs, alignment) ==
    [Paragraph |-> TRUE, Elements |-> runs, Alignment |-> alignment]

NotParagraph == [Paragraph |-> FALSE, Elements |-> <<>>, Alignment |-> ""]

Run(content) == [TextRun |-> TRUE, Content |-> content]

RECURSIVE ContentLength(_)
ContentLength(runs) ==
    IF runs = <<>> THEN 0 ELSE Len(Head(runs).Content) + ContentLength(Tail(runs))

ElementSize(e) == IF e.Paragraph THEN ContentLength(e.Elements) ELSE 1

\* element.StartIndex / element.EndIndex of the element at 0-based index i
RECURSIVE StartIndex(_, _)
StartIndex(doc, i) ==
    IF i = 0 THEN 1 ELSE StartIndex(doc, i - 1) + ElementSize(doc[i])

EndIndex(doc, i) == StartIndex(doc, i) + ElementSize(doc[i + 1])

\* strings.Split(s, sep) for a one-rune separator
RECURSIVE Split(_, _)
Split(s, sep) ==
    IF \E i \in 1..Len(s) : s[i] = sep
    THEN Only({ <<SubSeq(s, 1, i - 1)>> \o
                    Only({Split(rest, sep) : rest \in {SubSeq(s, i + 1, Len(s))}})
                : i \in {CHOOSE k \in 1..Len(s) :
                             s[k] = sep /\ \A j \in 1..(k - 1) : s[j] # sep} })
    ELSE <<s>>

\* strings.Count(content, "\t")
CountTabs(content) == Len(SelectSeq(content, LAMBDA r : r = 9))

\* strings.Repeat("\t", n)
RepeatTab(n) == [i \in 1..n |-> 9]

(***************************************************************************)
(* getNextNonEmptyLine (main.go:1158-1234)                                 *)
(***************************************************************************)

\* The loop over a paragraph's elements, main.go:1173-1190.  acc holds
\* textContent, firstTextRun (hasFirst says it is not nil) and
\* tabsFromSkippedRuns.
RECURSIVE ScanRuns(_, _)
ScanRuns(runs, acc) ==
    IF runs = <<>> THEN acc
    ELSE Only({ ScanRuns(Tail(runs), next) : next \in {
         LET pe == Head(runs) IN
         IF ~pe.TextRun
         THEN acc
         ELSE IF TrimSpace(pe.Content) = <<>>
         THEN IF ~acc.hasFirst
              THEN [acc EXCEPT !.tabsFromSkippedRuns = @ + CountTabs(pe.Content)]
              ELSE acc
         ELSE [acc EXCEPT !.textContent = @ \o pe.Content,
                          !.firstTextRun = IF acc.hasFirst THEN @ ELSE pe.Content,
                          !.hasFirst = TRUE] } })

ParagraphScan(element) ==
    Only({ \* main.go:1192-1196: the skipped tabs are put in front of the first run
           IF acc.hasFirst /\ acc.tabsFromSkippedRuns > 0
           THEN [acc EXCEPT !.firstTextRun = RepeatTab(acc.tabsFromSkippedRuns) \o @]
           ELSE acc
         : acc \in {ScanRuns(element.Elements,
                        [textContent |-> <<>>, firstTextRun |-> <<>>,
                         hasFirst |-> FALSE, tabsFromSkippedRuns |-> 0])} })

\* The lines of a paragraph: strings.Split(paragraphText, "\n").
ParagraphLines(element) ==
    Only({ IF paragraphText = <<>> THEN <<>> ELSE Split(paragraphText, 10)
         : paragraphText \in {TrimSpace(ParagraphScan(element).textContent)} })

\* Mutant of AdvanceCursor: the rest of the paragraph is skipped.
AdvanceCursorNextElement(c, j, n) ==
    [ElementIndex |-> c.ElementIndex + 1, LineIndex |-> 0]

\* main.go:1213-1218: the cursor after line j (0-based) of n was returned
AdvanceCursor(c, j, n) ==
    IF j + 1 >= n
    THEN [ElementIndex |-> c.ElementIndex + 1, LineIndex |-> 0]
    ELSE [ElementIndex |-> c.ElementIndex, LineIndex |-> j + 1]

\* Result of a call: err is "" (a line is returned), "empty document" or
\* "end of document"; cursor is the cursor as the call leaves it; line is
\* the place of the returned line in its paragraph (an observation, not a
\* field of LineInfo).
RECURSIVE ScanFrom(_, _)
ScanFrom(doc, c) ==
    IF ~(c.ElementIndex < Len(doc))
    THEN [err |-> "end of document", cursor |-> c]
    ELSE Only({
      LET element == doc[c.ElementIndex + 1]
          \* the first line from LineIndex on that is not blank, if any
          first == {j \in c.LineIndex..(Len(lines) - 1) :
                      /\ TrimSpace(lines[j + 1]) # <<>>
                      /\ \A m \in c.LineIndex..(j - 1) : TrimSpace(lines[m + 1]) = <<>>}
      IN  IF element.Paragraph /\ Len(element.Elements) > 0 /\ lines # <<>>
          THEN IF first # {}
               THEN LET j == CHOOSE k \in first : TRUE
                    IN  [err |-> "",
                         lineInfo |-> [Text |-> TrimSpace(lines[j + 1]),
                                       Element |-> c.ElementIndex,
                                       TextRun |-> ParagraphScan(element).firstTextRun],
                         line |-> j,
                         cursor |-> AdvanceCursor(c, j, Len(lines))]
               ELSE \* main.go:1225-1230
                    ScanFrom(doc, [ElementIndex |-> c.ElementIndex + 1, LineIndex |-> 0])
          ELSE \* main.go:1230: LineIndex is left as it is
               ScanFrom(doc, [c EXCEPT !.ElementIndex = @ + 1])
      : lines \in {ParagraphLines(doc[c.ElementIndex + 1])} })

\* Mutant of getNextNonEmptyLine: at the end of the document the cursor is
\* put back to the start.
getNextNonEmptyLineRewinds(doc, c) ==
    IF Len(doc) = 0
    THEN [err |-> "empty document", cursor |-> c]
    ELSE LET r == ScanFrom(doc, c)
         IN  IF r.err = "end of document"
             THEN [r EXCEPT !.cursor = [ElementIndex |-> 0, LineIndex |-> 0]]
             ELSE r

getNextNonEmptyLine(doc, c) ==
    IF Len(doc) = 0
    THEN [err |-> "empty document", cursor |-> c]
    ELSE ScanFrom(doc, c)

NewCursor == [ElementIndex |-> 0, LineIndex |-> 0]

(***************************************************************************)
(* extractLineFeatures (main.go:780-865): the snapshot of a line.  Of the  *)
(* style attributes the model keeps the alignment; the others are copied   *)
(* in the same way.                                                        *)
(***************************************************************************)
RECURSIVE LeadingTabCount(_)
LeadingTabCount(content) ==
    IF content # <<>> /\ Head(content) = 9
    THEN 1 + LeadingTabCount(Tail(content))
    ELSE 0

extractLineFeatures(doc, lineInfo) ==
    [ nil         |-> FALSE,
      Text        |-> lineInfo.Text,
      LeadingTabs |-> LeadingTabCount(lineInfo.TextRun),
      Alignment   |-> IF doc[lineInfo.Element + 1].Alignment # ""
                      THEN doc[lineInfo.Element + 1].Alignment
                      ELSE "START" ]

(***************************************************************************)
(* synchronizeDocuments (main.go:904-1155).  Its locals, the two cursors   *)
(* and the observations are handled as one record per step; the actions    *)
(* below copy the record back into the variables.                          *)
(***************************************************************************)
State ==
    [ sourceCursor |-> sourceCursor, targetCursor |-> targetCursor,
      sourceLineNum |-> sourceLineNum, targetLineNum |-> targetLineNum,
      previousFeatures |-> previousFeatures,
      lastProcessedWasChinese |-> lastProcessedWasChinese,
      tabsToAddMap |-> tabsToAddMap, sourceLineInfo |-> sourceLineInfo,
      sourceKey |-> sourceKey, sourceFeatures |-> sourceFeatures,
      loopID |-> loopID, pc |-> pc, loopExit |-> loopExit,
      exhausted |-> exhausted, err |-> err,
      formatRequests |-> formatRequests, lastApplyErr |-> lastApplyErr,
      insertRequests |-> insertRequests,
      sourcePulls |-> sourcePulls, targetPulls |-> targetPulls ]

Running == [kind |-> "running"]
NoError == [kind |-> "nil"]
Errorf(msg) == [kind |-> "error", msg |-> msg]
NilLine == [nil |-> TRUE]
NoBaseline == [set |-> FALSE]

\* return <e>
Return(s, e) == [s EXCEPT !.pc = "done", !.err = e]

\* getNextNonEmptyLine answered "end of document" for the stream `which`
EndOfDocument(s, which) == [s EXCEPT !.exhausted = which]

\* break out of the main loop
Break(s, which) ==
    [EndOfDocument(s, which) EXCEPT !.pc = "tabs", !.loopExit = which]

\* What is noted of a pulled line: where it is and its text.
Pulled(r) ==
    [Element |-> r.lineInfo.Element, Line |-> r.line, Text |-> r.lineInfo.Text]

\* main.go:924-926, 943-945, 991-995: a source line was pulled
TakeSourceLine(s, r) ==
    [s EXCEPT !.sourceCursor = r.cursor,
              !.sourceLineInfo = r.lineInfo,
              !.sourceLineNum = @ + 1,
              !.sourceKey = generateLineKey(r.lineInfo.Text),
              !.sourceFeatures = extractLineFeatures(sourceDoc, r.lineInfo),
              !.sourcePulls = Append(@, Pulled(r))]

\* main.go:955, 1009: a target line was pulled
TakeTargetLine(s, r) ==
    [s EXCEPT !.targetCursor = r.cursor,
              !.targetLineNum = @ + 1,
              !.targetPulls = Append(@, Pulled(r))]

\* tabsToAddMap[loopID] = features.LeadingTabs, when the snapshot has tabs
RecordTabs(s, features) ==
    IF features # NilFeatures /\ features.LeadingTabs > 0
    THEN [s EXCEPT !.tabsToAddMap =
              [k \in DOMAIN @ \cup {s.loopID} |->
                  IF k = s.loopID THEN features.LeadingTabs ELSE @[k]]]
    ELSE s

\* Mutant of ApplyFormatting: a failed request ends the run.
ApplyFormattingAborts(s, lineInfo, features, applyOk) ==
    IF applyOk
    THEN [s EXCEPT !.formatRequests =
                       Append(@, [loopID |-> s.loopID,
                                  targetLine |-> s.targetLineNum,
                                  text |-> lineInfo.Text,
                                  startIndex |-> StartIndex(targetDoc, lineInfo.Element),
                                  endIndex |-> EndIndex(targetDoc, lineInfo.Element),
                                  features |-> features]),
                   !.lastApplyErr = FALSE]
    ELSE Return([s EXCEPT !.lastApplyErr = TRUE], Errorf("failed to apply formatting"))

\* Mutant of ApplyFormatting: a failed request is sent a second time.
ApplyFormattingRetries(s, lineInfo, features, applyOk) ==
    LET request == [loopID |-> s.loopID,
                    targetLine |-> s.targetLineNum,
                    text |-> lineInfo.Text,
                    startIndex |-> StartIndex(targetDoc, lineInfo.Element),
                    endIndex |-> EndIndex(targetDoc, lineInfo.Element),
                    features |-> features]
    IN  [s EXCEPT !.formatRequests =
                      IF applyOk THEN Append(@, request)
                                 ELSE Append(Append(@, request), request),
                  !.lastApplyErr = ~applyOk]

\* applyFormattingToRange(docsService, targetDocID, StartIndex, EndIndex,
\* features) with its result; a failure is printed as a warning.
ApplyFormatting(s, lineInfo, features, applyOk) ==
    [s EXCEPT !.formatRequests =
                  Append(@, [loopID |-> s.loopID,
                             targetLine |-> s.targetLineNum,
                             text |-> lineInfo.Text,
                             startIndex |-> StartIndex(targetDoc, lineInfo.Element),
                             endIndex |-> EndIndex(targetDoc, lineInfo.Element),
                             features |-> features]),
              !.lastApplyErr = ~applyOk]

\* Mutant of ChineseBranch: the flag is left as it was.
ChineseBranchKeepsFlag(s, lineInfo, decision, applyOk) ==
    LET s1 == RecordTabs(s, s.previousFeatures)
    IN  IF decision.ShouldFollowPrevStyle /\ s.previousFeatures # NilFeatures
        THEN ApplyFormatting(s1, lineInfo, s.previousFeatures, applyOk)
        ELSE s1

\* Mutant of ChineseBranch: the snapshot of the current source line is used
\* in place of the retained one.
ChineseBranchUsesSource(s, lineInfo, decision, applyOk) ==
    LET s1 == RecordTabs(s, s.sourceFeatures)
        s2 == IF s.sourceFeatures # NilFeatures
              THEN ApplyFormatting(s1, lineInfo, s.sourceFeatures, applyOk)
              ELSE s1
    IN  [s2 EXCEPT !.lastProcessedWasChinese = TRUE]

\* main.go:1015-1035
ChineseBranch(s, lineInfo, decision, applyOk) ==
    LET s1 == RecordTabs(s, s.previousFeatures)
        s2 == IF decision.ShouldFollowPrevStyle /\ s.previousFeatures # NilFeatures
              THEN ApplyFormatting(s1, lineInfo, s.previousFeatures, applyOk)
              ELSE s1
    IN  [s2 EXCEPT !.lastProcessedWasChinese = TRUE]

\* Mutant of MismatchError: a mismatch is reported as a plain error.
MismatchErrorPlain(s, lineInfo) == Errorf("line content mismatch")

MismatchError(s, lineInfo) ==
    [ kind |-> "SyncError",
      SourceLine |-> s.sourceLineNum, TargetLine |-> s.targetLineNum,
      SourceKey |-> s.sourceKey, TargetKey |-> generateLineKey(lineInfo.Text) ]

\* Mutant of EnglishBranch: a mismatch is passed over and the loop goes on.
EnglishBranchSkipsMismatch(s, lineInfo, decision, applyOk) ==
    IF ~decision.LinesMatch
    THEN [s EXCEPT !.lastProcessedWasChinese = FALSE]
    ELSE LET s1 == RecordTabs(s, s.sourceFeatures)
             s2 == ApplyFormatting(s1, lineInfo, s.sourceFeatures, applyOk)
         IN  [s2 EXCEPT !.previousFeatures = s.sourceFeatures,
                        !.lastProcessedWasChinese = FALSE]

\* Mutant of EnglishBranch: the retained snapshot is not updated.
EnglishBranchKeepsSnapshot(s, lineInfo, decision, applyOk) ==
    IF ~decision.LinesMatch
    THEN Return(s, MismatchError(s, lineInfo))
    ELSE LET s1 == RecordTabs(s, s.sourceFeatures)
             s2 == ApplyFormatting(s1, lineInfo, s.sourceFeatures, applyOk)
         IN  [s2 EXCEPT !.lastProcessedWasChinese = FALSE]

\* Mutant of EnglishBranch: the request carries the retained snapshot.
EnglishBranchUsesRetained(s, lineInfo, decision, applyOk) ==
    IF ~decision.LinesMatch
    THEN Return(s, MismatchError(s, lineInfo))
    ELSE LET s1 == RecordTabs(s, s.sourceFeatures)
             s2 == ApplyFormatting(s1, lineInfo, s.previousFeatures, applyOk)
         IN  [s2 EXCEPT !.previousFeatures = s.sourceFeatures,
                        !.lastProcessedWasChinese = FALSE]

\* main.go:1036-1069
EnglishBranch(s, lineInfo, decision, applyOk) ==
    IF ~decision.LinesMatch
    THEN Return(s, MismatchError(s, lineInfo))
    ELSE LET s1 == RecordTabs(s, s.sourceFeatures)
             s2 == ApplyFormatting(s1, lineInfo, s.sourceFeatures, applyOk)
         IN  [s2 EXCEPT !.previousFeatures = s.sourceFeatures,
                        !.lastProcessedWasChinese = FALSE]

\* Mutant of MainDecide: a line classified Empty takes the branch of the
\* Chinese and mixed lines.
MainDecideEmptyAsChinese(s, lineInfo, applyOk) ==
    Only({ IF decision.LineType \in {"Chinese", "Mixed", "Empty"}
           THEN ChineseBranch(s, lineInfo, decision, applyOk)
           ELSE EnglishBranch(s, lineInfo, decision, applyOk)
         : decision \in {AnalyzeLineMatch(s.sourceLineInfo.Text, lineInfo.Text,
                                          s.previousFeatures,
                                          s.lastProcessedWasChinese)} })

\* main.go:1012-1069: the decision on the target line just pulled
MainDecide(s, lineInfo, applyOk) ==
    Only({ IF decision.LineType \in {"Chinese", "Mixed"}
           THEN ChineseBranch(s, lineInfo, decision, applyOk)
           ELSE EnglishBranch(s, lineInfo, decision, applyOk)
         : decision \in {AnalyzeLineMatch(s.sourceLineInfo.Text, lineInfo.Text,
                                          s.previousFeatures,
                                          s.lastProcessedWasChinese)} })

\* Mutant of MainTargetPulled: the end of the target is an error, as it is
\* while fast-forwarding.
MainTargetPulledFails(s, tr, applyOk) ==
    IF tr.err # ""
    THEN Return(EndOfDocument([s EXCEPT !.targetCursor = tr.cursor], "target"),
                Errorf("error reading target document"))
    ELSE Only({MainDecide(s2, tr.lineInfo, applyOk) : s2 \in {TakeTargetLine(s, tr)}})

\* main.go:1001-1009: the target line of a main-loop iteration; tr is what
\* getNextNonEmptyLine(targetCursor) returned
MainTargetPulled(s, tr, applyOk) ==
    IF tr.err = "end of document"
    THEN Break([s EXCEPT !.targetCursor = tr.cursor], "target")
    ELSE IF tr.err # ""
    THEN Return([s EXCEPT !.targetCursor = tr.cursor],
                Errorf("error reading target document"))
    ELSE Only({MainDecide(s2, tr.lineInfo, applyOk) : s2 \in {TakeTargetLine(s, tr)}})

MainPullTarget(s, applyOk) ==
    Only({MainTargetPulled(s, tr, applyOk) :
              tr \in {getNextNonEmptyLine(targetDoc, s.targetCursor)}})

\* Mutant of MainSourcePulled: the end of the source at a required advance is
\* reported as a SyncError.
MainSourcePulledSyncError(s, sr, applyOk) ==
    IF sr.err # ""
    THEN Return(EndOfDocument([s EXCEPT !.sourceCursor = sr.cursor], "source"),
                [kind |-> "SyncError",
                 SourceLine |-> s.sourceLineNum, TargetLine |-> s.targetLineNum,
                 SourceKey |-> s.sourceKey, TargetKey |-> <<>>])
    ELSE Only({MainPullTarget(s1, applyOk) : s1 \in {TakeSourceLine(s, sr)}})

\* main.go:980-998: sr is what getNextNonEmptyLine(sourceCursor) returned
MainSourcePulled(s, sr, applyOk) ==
    IF sr.err = "end of document"
    THEN Break([s EXCEPT !.sourceCursor = sr.cursor], "source")
    ELSE IF sr.err # ""
    THEN Return([s EXCEPT !.sourceCursor = sr.cursor],
                Errorf("error reading source document"))
    ELSE Only({MainPullTarget(s1, applyOk) : s1 \in {TakeSourceLine(s, sr)}})

\* One iteration of the main loop, main.go:977-1070.
\* Mutant of MainLoopBody: the source is pulled in every iteration.
MainLoopBodyAlwaysPulls(s, applyOk) ==
    Only({MainSourcePulled(s, sr, applyOk) :
              sr \in {getNextNonEmptyLine(sourceDoc, s.sourceCursor)}})

MainLoopBody(s, applyOk) ==
    IF shouldAdvanceSourceCursor(s.lastProcessedWasChinese)
    THEN Only({MainSourcePulled(s, sr, applyOk) :
                   sr \in {getNextNonEmptyLine(sourceDoc, s.sourceCursor)}})
    ELSE MainPullTarget(s, applyOk)

\* loopID++ of the main loop
NextLoop(s) == IF s.pc = "main" THEN [s EXCEPT !.loopID = @ + 1] ELSE s

MainIterationStep(s, applyOk) ==
    Only({NextLoop(s1) : s1 \in {MainLoopBody(s, applyOk)}})

\* Mutant of FastForwardDecide: a Chinese or mixed line does not set the flag.
FastForwardDecideForgetsChinese(s, lineInfo) ==
    LET decision == AnalyzeLineMatch(s.sourceLineInfo.Text, lineInfo.Text,
                                     s.previousFeatures, s.lastProcessedWasChinese)
    IN  IF decision.LineType \in {"Chinese", "Mixed"}
        THEN s
        ELSE IF ~decision.LinesMatch
        THEN Return(s, MismatchError(s, lineInfo))
        ELSE [s EXCEPT !.previousFeatures = s.sourceFeatures,
                       !.lastProcessedWasChinese = FALSE]

\* Mutant of FastForwardDecide: the body of the main loop, formatting included.
FastForwardDecideFormats(s, lineInfo) == MainDecide(s, lineInfo, TRUE)

\* Mutant of FastForwardDecide: the keys are not compared.
FastForwardDecideNoCheck(s, lineInfo) ==
    LET decision == AnalyzeLineMatch(s.sourceLineInfo.Text, lineInfo.Text,
                                     s.previousFeatures, s.lastProcessedWasChinese)
    IN  IF decision.LineType \in {"Chinese", "Mixed"}
        THEN [s EXCEPT !.lastProcessedWasChinese = TRUE]
        ELSE [s EXCEPT !.previousFeatures = s.sourceFeatures,
                       !.lastProcessedWasChinese = FALSE]

\* main.go:957-973: what a fast-forwarded iteration does with the decision
FastForwardDecide(s, lineInfo) ==
    Only({ IF decision.LineType \in {"Chinese", "Mixed"}
           THEN [s EXCEPT !.lastProcessedWasChinese = TRUE]
           ELSE IF ~decision.LinesMatch
           THEN Return(s, MismatchError(s, lineInfo))
           ELSE [s EXCEPT !.previousFeatures = s.sourceFeatures,
                          !.lastProcessedWasChinese = FALSE]
         : decision \in {AnalyzeLineMatch(s.sourceLineInfo.Text, lineInfo.Text,
                                          s.previousFeatures,
                                          s.lastProcessedWasChinese)} })

\* Mutant of FastForwardTargetPulled: the end of the target breaks out to the
\* deferred pass, as in the main loop.
FastForwardTargetPulledBreaks(s, tr) ==
    IF tr.err = "end of document"
    THEN Break([s EXCEPT !.targetCursor = tr.cursor], "target")
    ELSE IF tr.err # ""
    THEN Return([s EXCEPT !.targetCursor = tr.cursor],
                Errorf("error reading target document while fast-forwarding"))
    ELSE Only({FastForwardDecide(s2, tr.lineInfo) : s2 \in {TakeTargetLine(s, tr)}})

\* main.go:948-955
FastForwardTargetPulled(s, tr) ==
    IF tr.err = "end of document"
    THEN Return(EndOfDocument([s EXCEPT !.targetCursor = tr.cursor], "target"),
                Errorf("reached end of target document while fast-forwarding"))
    ELSE IF tr.err # ""
    THEN Return([s EXCEPT !.targetCursor = tr.cursor],
                Errorf("error reading target document while fast-forwarding"))
    ELSE Only({FastForwardDecide(s2, tr.lineInfo) : s2 \in {TakeTargetLine(s, tr)}})

FastForwardPullTarget(s) ==
    Only({FastForwardTargetPulled(s, tr) :
              tr \in {getNextNonEmptyLine(targetDoc, s.targetCursor)}})

\* main.go:934-946
FastForwardSourcePulled(s, sr) ==
    IF sr.err = "end of document"
    THEN Return(EndOfDocument([s EXCEPT !.sourceCursor = sr.cursor], "source"),
                Errorf("reached end of source document while fast-forwarding"))
    ELSE IF sr.err # ""
    THEN Return([s EXCEPT !.sourceCursor = sr.cursor],
                Errorf("error reading source document while fast-forwarding"))
    ELSE Only({FastForwardPullTarget(s1) : s1 \in {TakeSourceLine(s, sr)}})

\* Mutant of FastForwardBody: the source is pulled in every iteration.
FastForwardBodyAlwaysPulls(s) ==
    Only({FastForwardSourcePulled(s, sr) :
              sr \in {getNextNonEmptyLine(sourceDoc, s.sourceCursor)}})

\* One iteration of the fast-forward loop, main.go:933-974.
FastForwardBody(s) ==
    IF shouldAdvanceSourceCursor(s.lastProcessedWasChinese)
    THEN Only({FastForwardSourcePulled(s, sr) :
                   sr \in {getNextNonEmptyLine(sourceDoc, s.sourceCursor)}})
    ELSE FastForwardPullTarget(s)

\* Mutant of FastForwardNextLoop: the main loop numbers its iterations from 1.
FastForwardNextLoopRestarts(s) ==
    IF s.pc # "ff" THEN s
    ELSE IF s.loopID + 1 < startLoop
    THEN [s EXCEPT !.loopID = @ + 1]
    ELSE [s EXCEPT !.loopID = 1, !.pc = "main"]

\* loopID++ and the test loopID < startLoop; after the last fast-forwarded
\* iteration the main loop starts with loopID = startLoop.
FastForwardNextLoop(s) ==
    IF s.pc # "ff" THEN s
    ELSE IF s.loopID + 1 < startLoop
    THEN [s EXCEPT !.loopID = @ + 1]
    ELSE [s EXCEPT !.loopID = startLoop, !.pc = "main"]

FastForwardStep(s) ==
    Only({FastForwardNextLoop(s1) : s1 \in {FastForwardBody(s)}})

\* main.go:919-931: the first source line, then the choice of the loop
FirstSourcePulled(s, r) ==
    IF r.err = "end of document"
    THEN Return(EndOfDocument([s EXCEPT !.sourceCursor = r.cursor], "source"),
                Errorf("error reading first source line"))
    ELSE IF r.err # ""
    THEN Return([s EXCEPT !.sourceCursor = r.cursor],
                Errorf("error reading first source line"))
    ELSE IF startLoop > 1
    THEN [TakeSourceLine(s, r) EXCEPT !.pc = "ff", !.loopID = 1]
    ELSE [TakeSourceLine(s, r) EXCEPT !.pc = "main", !.loopID = startLoop]

ReadFirstStep(s) ==
    Only({FirstSourcePulled(s, r) :
              r \in {getNextNonEmptyLine(sourceDoc, s.sourceCursor)}})

(***************************************************************************)
(* The deferred tab insertion, main.go:1086-1152.                          *)
(***************************************************************************)

\* main.go:1103-1115: the start offsets of the target's lines, numbered from
\* 1, read with a fresh cursor.  acc.starts[i] is lineStartIndices[i].
RECURSIVE CollectLineStarts(_, _, _)
CollectLineStarts(doc, c, starts) ==
    Only({ IF r.err # ""
           THEN [err |-> r.err, cursor |-> r.cursor, starts |-> starts]
           ELSE Only({ CollectLineStarts(doc, r.cursor, next)
                     : next \in {Append(starts, StartIndex(doc, r.lineInfo.Element))} })
         : r \in {getNextNonEmptyLine(doc, c)} })

\* main.go:1121-1137: from the last loop ID down to 1
RECURSIVE BuildInsertRequests(_, _, _)
BuildInsertRequests(id, tabs, starts) ==
    IF id < 1 THEN <<>>
    ELSE (IF id \in DOMAIN tabs /\ id \in DOMAIN starts
          THEN <<[loopID |-> id, index |-> starts[id], text |-> RepeatTab(tabs[id])]>>
          ELSE <<>>)
         \o BuildInsertRequests(id - 1, tabs, starts)

\* main.go:1117-1152: scan is the result of the re-scan of the target
InsertTabsScanned(s, scan, batchOk) ==
    LET \* currentLoopID - 1 = number of lines read
        requests == BuildInsertRequests(Len(scan.starts), s.tabsToAddMap, scan.starts)
    IN  IF scan.err # "end of document"
        THEN Return([s EXCEPT !.targetCursor = scan.cursor],
                    Errorf("error reading target document for tab insertion"))
        ELSE IF Len(requests) > 0
        THEN Return([s EXCEPT !.targetCursor = scan.cursor,
                              !.insertRequests = requests],
                    IF batchOk THEN NoError ELSE Errorf("failed to insert tabs"))
        ELSE Return([s EXCEPT !.targetCursor = scan.cursor], NoError)

InsertTabsStep(s, fetchOk, batchOk) ==
    IF Cardinality(DOMAIN s.tabsToAddMap) = 0
    THEN Return(s, NoError)
    ELSE IF ~fetchOk
    THEN Return(s, Errorf("unable to re-fetch target document"))
    ELSE Only({InsertTabsScanned(s, scan, batchOk) :
                   scan \in {CollectLineStarts(targetDoc, NewCursor, <<>>)}})

(***************************************************************************)
(* The documents of the model.                                             *)
(***************************************************************************)
SourceElements ==
    { Para(<<Run(<<65>>)>>, ""),                      \* "A"
      Para(<<Run(<<9>>), Run(<<98>>)>>, "CENTER"),    \* "\t" then "b": one leading tab
      Para(<<Run(<<49, 46>>)>>, ""),                  \* "1.": no letter
      NotParagraph }

TargetElements ==
    { Para(<<Run(<<97, 32>>)>>, ""),                  \* "a "
      Para(<<Run(<<98>>)>>, ""),                      \* "b"
      Para(<<Run(<<20013>>)>>, ""),                   \* a Chinese line
      Para(<<Run(<<98, 10, 20013, 98>>)>>, ""),       \* two lines: "b", then mixed
      Para(<<Run(<<49, 46>>)>>, ""),                  \* "1.": no letter
      Para(<<Run(<<32>>)>>, "") }                     \* a blank paragraph

Documents(elements, n) == UNION {[1..k -> elements] : k \in 0..n}

\* What the latest run with start-loop 1 left when its loop ended.
Summary(s) ==
    [ set |-> TRUE,
      lastProcessedWasChinese |-> s.lastProcessedWasChinese,
      sourceLineNum |-> s.sourceLineNum, targetLineNum |-> s.targetLineNum,
      loopExit |-> s.loopExit, err |-> s.err, loopID |-> s.loopID,
      formatted |-> {s.formatRequests[i].loopID : i \in 1..Len(s.formatRequests)} ]

\* The locals as synchronizeDocuments is entered (main.go:896-917).
EntryState ==
    [ sourceCursor |-> NewCursor, targetCursor |-> NewCursor,
      sourceLineNum |-> 0, targetLineNum |-> 0,
      previousFeatures |-> NilFeatures,
      lastProcessedWasChinese |-> FALSE,
      tabsToAddMap |-> <<>>, sourceLineInfo |-> NilLine,
      sourceKey |-> <<>>, sourceFeatures |-> NilFeatures,
      loopID |-> 0, pc |-> "start", loopExit |-> "none",
      exhausted |-> "none", err |-> Running,
      formatRequests |-> <<>>, lastApplyErr |-> FALSE,
      insertRequests |-> <<>>,
      sourcePulls |-> <<>>, targetPulls |-> <<>> ]

\* Copy the record of a step back into the variables.
Assign(s) ==
    /\ sourceCursor' = s.sourceCursor
    /\ targetCursor' = s.targetCursor
    /\ sourceLineNum' = s.sourceLineNum
    /\ targetLineNum' = s.targetLineNum
    /\ previousFeatures' = s.previousFeatures
    /\ lastProcessedWasChinese' = s.lastProcessedWasChinese
    /\ tabsToAddMap' = s.tabsToAddMap
    /\ sourceLineInfo' = s.sourceLineInfo
    /\ sourceKey' = s.sourceKey
    /\ sourceFeatures' = s.sourceFeatures
    /\ loopID' = s.loopID
    /\ pc' = s.pc
    /\ loopExit' = s.loopExit
    /\ exhausted' = s.exhausted
    /\ err' = s.err
    /\ formatRequests' = s.formatRequests
    /\ lastApplyErr' = s.lastApplyErr
    /\ insertRequests' = s.insertRequests
    /\ sourcePulls' = s.sourcePulls
    /\ targetPulls' = s.targetPulls

\* A step of synchronizeDocuments; the end of the loop of a run with
\* start-loop 1 is noted in baseline.
Becomes(s) ==
    /\ Assign(s)
    /\ baseline' = IF startLoop = 1 /\ pc \in {"start", "ff", "main"}
                      /\ s.pc \in {"tabs", "done"}
                   THEN Summary(s) ELSE baseline
    /\ UNCHANGED <<sourceDoc, targetDoc, startLoop>>

\* No call of AnalyzeLineMatch is being looked at.
NoAnalysis == [called |-> FALSE]

MatcherIdle ==
    /\ text = <<>>
    /\ key = <<>>
    /\ prevKey = <<>>
    /\ lastOp = "none"
    /\ analysis = NoAnalysis

\* The first run uses the default of --start-loop (main.go:115); RunAgain
\* chooses any value.
Init ==
    /\ sourceDoc \in Documents(SourceElements, MaxSrcElems)
    /\ targetDoc \in Documents(TargetElements, MaxTgtElems)
    /\ Len(sourceDoc) + Len(targetDoc) <= MaxElems
    /\ startLoop = 1
    /\ sourceCursor = NewCursor
    /\ targetCursor = NewCursor
    /\ sourceLineNum = 0
    /\ targetLineNum = 0
    /\ previousFeatures = NilFeatures
    /\ lastProcessedWasChinese = FALSE
    /\ tabsToAddMap = <<>>
    /\ sourceLineInfo = NilLine
    /\ sourceKey = <<>>
    /\ sourceFeatures = NilFeatures
    /\ loopID = 0
    /\ pc = "start"
    /\ loopExit = "none"
    /\ exhausted = "none"
    /\ err = Running
    /\ formatRequests = <<>>
    /\ lastApplyErr = FALSE
    /\ insertRequests = <<>>
    /\ sourcePulls = <<>>
    /\ targetPulls = <<>>
    /\ baseline = NoBaseline
    /\ MatcherIdle

ReadFirstSourceLine ==
    /\ pc = "start"
    /\ \E s \in {ReadFirstStep(State)} : Becomes(s)
    /\ UNCHANGED matcherVars

FastForwardIteration ==
    /\ pc = "ff"
    /\ \E s \in {FastForwardStep(State)} : Becomes(s)
    /\ UNCHANGED matcherVars

MainIteration ==
    /\ pc = "main"
    /\ \E applyOk \in BOOLEAN :
           \E s \in {MainIterationStep(State, applyOk)} : Becomes(s)
    /\ UNCHANGED matcherVars

InsertTabs ==
    /\ pc = "tabs"
    /\ \E fetchOk \in BOOLEAN, batchOk \in BOOLEAN :
           \E s \in {InsertTabsStep(State, fetchOk, batchOk)} : Becomes(s)
    /\ UNCHANGED matcherVars

\* The tool is run again on the same two documents (main.go:115-130,
\* processDualDocuments builds fresh cursors, main.go:896-900).  Applied
\* formatting does not change a line's text, and inserted tabs are white
\* space that getNextNonEmptyLine trims.
RunAgain ==
    /\ pc = "done"
    /\ startLoop' \in 1..MaxStartLoop
    /\ Assign(EntryState)
    /\ UNCHANGED <<sourceDoc, targetDoc, baseline>>
    /\ UNCHANGED matcherVars

Next ==
    \/ ReadFirstSourceLine
    \/ FastForwardIteration
    \/ MainIteration
    \/ InsertTabs
    \/ RunAgain

Spec == Init /\ [][Next]_vars

\* A step of the run in progress.  synchronizeDocuments is sequential code:
\* once called it goes on to its next step until it returns.
RunStep ==
    \/ ReadFirstSourceLine
    \/ FastForwardIteration
    \/ MainIteration
    \/ InsertTabs

\* The fair specification is explored for the documents with one element
\* less than MaxElems allows.
FairInit == Init /\ Len(sourceDoc) + Len(targetDoc) < MaxElems

FairSpec == FairInit /\ [][Next]_vars /\ WF_vars(RunStep)

(***************************************************************************)
(* The matcher on its own: generateLineKey is applied to a text, then to   *)
(* the text after an edit.  key is the key of text, prevKey the key of the *)
(* text before the last edit.                                              *)
(***************************************************************************)
Texts(alphabet, n) == UNION {[1..k -> alphabet] : k \in 0..n}

\* tab, space, '"', '.', '1', 'A', 'a', U+4E2D
InitialAlphabet == {9, 32, 34, 46, 49, 65, 97, 20013}

\* the double and the single quotation mark
QuoteCharacters == {34, 39}

\* space, tab, newline, carriage return
WhitespaceCharacters == {32, 9, 10, 13}

\* characters of a prefix without ASCII letter: space, '.', '1', U+4E2D
PrefixAlphabet == {32, 46, 49, 20013}

IsAsciiLetter(r) == r \in (65..90) \cup (97..122)

OtherCase(r) == IF r \in 65..90 THEN r + 32 ELSE r - 32

InsertAt(t, i, r) == SubSeq(t, 1, i) \o <<r>> \o SubSeq(t, i + 1, Len(t))

RemoveAt(t, i) == SubSeq(t, 1, i - 1) \o SubSeq(t, i + 1, Len(t))

DriverIdle ==
    /\ sourceDoc = <<>>
    /\ targetDoc = <<>>
    /\ startLoop = 1
    /\ sourceCursor = NewCursor
    /\ targetCursor = NewCursor
    /\ sourceLineNum = 0
    /\ targetLineNum = 0
    /\ previousFeatures = NilFeatures
    /\ lastProcessedWasChinese = FALSE
    /\ tabsToAddMap = <<>>
    /\ sourceLineInfo = NilLine
    /\ sourceKey = <<>>
    /\ sourceFeatures = NilFeatures
    /\ loopID = 0
    /\ pc = "idle"
    /\ loopExit = "none"
    /\ exhausted = "none"
    /\ err = Running
    /\ formatRequests = <<>>
    /\ lastApplyErr = FALSE
    /\ insertRequests = <<>>
    /\ sourcePulls = <<>>
    /\ targetPulls = <<>>
    /\ baseline = NoBaseline

MatcherInit ==
    /\ DriverIdle
    /\ text \in Texts(InitialAlphabet, MaxLen)
    /\ key = generateLineKey(text)
    /\ prevKey = key
    /\ lastOp = "none"
    /\ analysis = NoAnalysis

\* generateLineKey is called on the edited text; each text of MatcherInit
\* is edited once
Edited(t, op) ==
    /\ lastOp = "none"
    /\ text' = t
    /\ key' = generateLineKey(t)
    /\ prevKey' = key
    /\ lastOp' = op
    /\ UNCHANGED <<driverVars, analysis>>

InsertWhitespace ==
    /\ Len(text) < MaxLen
    /\ \E i \in 0..Len(text), w \in WhitespaceCharacters :
           Edited(InsertAt(text, i, w), "insertWhitespace")

RemoveWhitespace ==
    \E i \in 1..Len(text) :
        /\ text[i] \in WhitespaceCharacters
        /\ Edited(RemoveAt(text, i), "removeWhitespace")

ChangeCase ==
    \E i \in 1..Len(text) :
        /\ IsAsciiLetter(text[i])
        /\ Edited([text EXCEPT ![i] = OtherCase(@)], "changeCase")

AddPrefix ==
    \E p \in Texts(PrefixAlphabet, MaxLen - Len(text)) :
        /\ p # <<>>
        /\ Edited(p \o text, "addPrefix")

InsertQuote ==
    /\ Len(text) < MaxLen
    /\ \E i \in 0..Len(text), q \in QuoteCharacters :
           Edited(InsertAt(text, i, q), "insertQuote")

RemoveQuote ==
    \E i \in 1..Len(text) :
        /\ text[i] \in QuoteCharacters
        /\ Edited(RemoveAt(text, i), "removeQuote")

MatcherNext ==
    \/ InsertWhitespace
    \/ RemoveWhitespace
    \/ ChangeCase
    \/ AddPrefix
    \/ InsertQuote
    \/ RemoveQuote

MatcherSpec == MatcherInit /\ [][MatcherNext]_vars

(***************************************************************************)
(* AnalyzeLineMatch on its own: a call with arguments drawn from small     *)
(* sets, then the decision it returns.                                     *)
(***************************************************************************)
\* space, '.', 'A', 'a', U+4E2D
ArgAlphabet == {32, 46, 65, 97, 20013}

\* A nil snapshot and the snapshot of a centred line with one leading tab.
Snapshots ==
    { NilFeatures,
      [nil |-> FALSE, Text |-> <<65>>, LeadingTabs |-> 1, Alignment |-> "CENTER"] }

AnalysisInit ==
    /\ DriverIdle
    /\ text = <<>>
    /\ key = <<>>
    /\ prevKey = <<>>
    /\ lastOp = "none"
    /\ \E s \in Texts(ArgAlphabet, MaxArgLen), t \in Texts(ArgAlphabet, MaxArgLen),
          prev \in Snapshots, flag \in BOOLEAN :
           analysis = [ called |-> FALSE,
                        sourceText |-> s, targetText |-> t,
                        previousFeatures |-> prev,
                        lastProcessedWasChinese |-> flag ]

\* decision := AnalyzeLineMatch(sourceText, targetText, previousFeatures,
\*                              lastProcessedWasChinese)
Analyze ==
    /\ ~analysis.called
    /\ analysis' =
           [ called |-> TRUE,
             sourceText |-> analysis.sourceText,
             targetText |-> analysis.targetText,
             previousFeatures |-> analysis.previousFeatures,
             lastProcessedWasChinese |-> analysis.lastProcessedWasChinese,
             decision |-> AnalyzeLineMatch(analysis.sourceText, analysis.targetText,
                                           analysis.previousFeatures,
                                           analysis.lastProcessedWasChinese) ]
    /\ UNCHANGED <<driverVars, text, key, prevKey, lastOp>>

AnalysisNext == Analyze

AnalysisSpec == AnalysisInit /\ [][AnalysisNext]_vars

(***************************************************************************)
(* The claims.                                                             *)
(***************************************************************************)

\* The non-empty lines of a document in reading order, each with its place.
LinesOfElement(doc, e) ==
    Only({ SelectSeq([j \in 1..Len(lines) |->
                        [Element |-> e, Line |-> j - 1, Text |-> TrimSpace(lines[j])]],
                     LAMBDA x : x.Text # <<>>)
           : lines \in {ParagraphLines(doc[e + 1])} })

RECURSIVE DocumentLinesFrom(_, _)
DocumentLinesFrom(doc, e) ==
    IF e >= Len(doc) THEN <<>>
    ELSE LinesOfElement(doc, e) \o DocumentLinesFrom(doc, e + 1)

DocumentLines(doc) == DocumentLinesFrom(doc, 0)

IsPrefix(p, q) == Len(p) <= Len(q) /\ \A i \in 1..Len(p) : p[i] = q[i]

LastTarget == targetPulls[Len(targetPulls)]
LastSource == sourcePulls[Len(sourcePulls)]

LastTargetSecondary ==
    /\ targetPulls # <<>>
    /\ classifyLineType(LastTarget.Text) \in {"Chinese", "Mixed"}

\* What the deferred tab pass can return.
DeferredPassResults ==
    { NoError, Errorf("unable to re-fetch target document"),
      Errorf("failed to insert tabs") }

\* The loop of the run has ended (by break or by return).
LoopEnded == pc \in {"tabs", "done"}

\* The main loop ended by break; the deferred pass is still to run or has run.
EndedByBreak ==
    \/ pc = "tabs" /\ err = Running
    \/ pc = "done" /\ err \in DeferredPassResults

\* C1: a target line of type English whose key differs from the key of the
\* current source line stops the run at once with a SyncError that carries the
\* 1-based numbers of the two lines and the two keys; that line and the later
\* ones get no formatting request and the deferred tab pass does not run.
C1_MismatchStopsRun ==
    ( /\ targetPulls # <<>>
      /\ classifyLineType(LastTarget.Text) = "English"
      /\ generateLineKey(LastTarget.Text) # generateLineKey(LastSource.Text) )
    => /\ pc = "done"
       /\ err = [ kind |-> "SyncError",
                  SourceLine |-> Len(sourcePulls),
                  TargetLine |-> Len(targetPulls),
                  SourceKey |-> generateLineKey(LastSource.Text),
                  TargetKey |-> generateLineKey(LastTarget.Text) ]
       /\ \A i \in 1..Len(formatRequests) :
              formatRequests[i].targetLine < Len(targetPulls)
       /\ insertRequests = <<>>
       /\ loopExit = "none"

\* C1 witness: a mismatch on the second target line or later, after a line was
\* formatted and a tab insertion was noted.
C1_Witness ==
    /\ pc = "done"
    /\ err.kind = "SyncError"
    /\ err.TargetLine >= 2
    /\ classifyLineType(LastTarget.Text) = "English"
    /\ formatRequests # <<>>
    /\ DOMAIN tabsToAddMap # {}

\* A required source advance (the previous target line was Chinese or mixed)
\* found the source at its end.
RequiredAdvanceFailed == exhausted = "source" /\ LastTargetSecondary

\* The example of the claim: one English source line; the target has an
\* English line with the same key, a Chinese or mixed line, and the English
\* line again.
ExampleDocuments ==
    \E src \in {DocumentLines(sourceDoc)}, tgt \in {DocumentLines(targetDoc)} :
        /\ Len(src) = 1
        /\ Len(tgt) = 3
        /\ classifyLineType(src[1].Text) = "English"
        /\ classifyLineType(tgt[1].Text) = "English"
        /\ classifyLineType(tgt[2].Text) \in {"Chinese", "Mixed"}
        /\ classifyLineType(tgt[3].Text) = "English"
        /\ generateLineKey(tgt[1].Text) = generateLineKey(src[1].Text)
        /\ generateLineKey(tgt[3].Text) = generateLineKey(src[1].Text)

\* C2 as stated: when a required source advance finds no further source line,
\* the run fails with a SyncError.
C2_Original ==
    (RequiredAdvanceFailed /\ pc = "done") => err.kind = "SyncError"

\* C2 amended: when a required source advance finds no further source line the
\* run never fails with a SyncError.  In the main loop the loop ends (source
\* exhausted) without another target line being pulled and the run goes on
\* to the deferred tab pass; while fast-forwarding the run returns the error
\* "reached end of source document while fast-forwarding".  In the example,
\* started at iteration 1, the loop ends in iteration 3 with target line 3
\* not pulled.
C2_ExhaustedAdvanceIsNoSyncError ==
    /\ RequiredAdvanceFailed =>
          /\ Len(sourcePulls) = Len(DocumentLines(sourceDoc))
          /\ err.kind # "SyncError"
          /\ IF loopID < startLoop
             THEN /\ pc = "done"
                  /\ err = Errorf("reached end of source document while fast-forwarding")
             ELSE /\ loopExit = "source"
                  /\ EndedByBreak
    /\ (startLoop = 1 /\ LoopEnded /\ ExampleDocuments) =>
          /\ loopExit = "source"
          /\ loopID = 3
          /\ targetLineNum = 2
          /\ EndedByBreak

\* C2 witness: the example run has ended, with no error at all.
C2_Witness ==
    /\ ExampleDocuments
    /\ startLoop = 1
    /\ RequiredAdvanceFailed
    /\ pc = "done"
    /\ err = NoError

Control(s) ==
    [ lastProcessedWasChinese |-> s.lastProcessedWasChinese,
      previousFeatures |-> s.previousFeatures,
      tabsToAddMap |-> s.tabsToAddMap,
      sourceLineNum |-> s.sourceLineNum,
      targetLineNum |-> s.targetLineNum,
      loopID |-> s.loopID, pc |-> s.pc, err |-> s.err ]

\* C4: in the main loop an iteration leaves the same control state whether
\* applyFormattingToRange succeeds or fails, and an iteration that issued a
\* request goes on to the next iteration.
C4_ApplyFailureChangesNothing ==
    pc = "main" =>
        \A ok \in {MainIterationStep(State, TRUE)},
           failed \in {MainIterationStep(State, FALSE)} :
            /\ Control(ok) = Control(failed)
            /\ \A s \in {ok, failed} :
                   Len(s.formatRequests) > Len(formatRequests) =>
                       /\ s.pc = "main"
                       /\ s.loopID = loopID + 1
                       /\ s.err = Running

\* C4 witness: the latest request failed and the loop goes on.
C4_Witness ==
    /\ pc = "main"
    /\ lastApplyErr
    /\ formatRequests # <<>>

SameCounters ==
    /\ lastProcessedWasChinese = baseline.lastProcessedWasChinese
    /\ sourceLineNum = baseline.sourceLineNum
    /\ targetLineNum = baseline.targetLineNum

\* The loop ended as the loop of the run from iteration 1 did: by the same
\* break, or by a return of the same kind (the same SyncError).
SameOutcome ==
    /\ loopExit = baseline.loopExit
    /\ loopExit = "none" =>
          /\ err.kind = baseline.err.kind
          /\ err.kind = "SyncError" => err = baseline.err

\* The run from iteration 1 ended its loop by exhaustion in an iteration
\* that this run fast-forwards.
ExhaustedBeforeStart ==
    baseline.loopExit # "none" /\ baseline.loopID < startLoop

C6_FastForwardHasNoSideEffect ==
    /\ \A i \in 1..Len(formatRequests) :
           /\ formatRequests[i].loopID >= startLoop
           /\ formatRequests[i].targetLine >= startLoop
    /\ \A k \in DOMAIN tabsToAddMap : k >= startLoop
    /\ pc = "ff" => (formatRequests = <<>> /\ DOMAIN tabsToAddMap = {})

\* C6 witness: a run with start-loop >= 2 that formatted a line and noted tabs.
C6_Witness ==
    /\ startLoop >= 2
    /\ formatRequests # <<>>
    /\ DOMAIN tabsToAddMap # {}

\* C7: if the run from iteration 1 raised a SyncError in iteration k, a run
\* with start-loop N > k raises the same SyncError in iteration k, never
\* reaches the main loop and issues no formatting request.
C7_FastForwardKeepsDriftCheck ==
    ( /\ baseline.set
      /\ baseline.err.kind = "SyncError"
      /\ startLoop > baseline.loopID )
    => /\ pc \in {"start", "ff", "done"}
       /\ formatRequests = <<>>
       /\ pc = "done" => (err = baseline.err /\ loopID = baseline.loopID)

\* C7 witness: the mismatch of iteration 2 is raised again with start-loop 3.
C7_Witness ==
    /\ baseline.set
    /\ baseline.err.kind = "SyncError"
    /\ baseline.loopID = 2
    /\ startLoop = 3
    /\ pc = "done"
    /\ err.kind = "SyncError"

\* The cursor stands after the place pos.
CursorAfter(pos, c) ==
    \/ pos.Element < c.ElementIndex
    \/ pos.Element = c.ElementIndex /\ pos.Line < c.LineIndex

\* C8: the lines pulled from each document are its first lines in reading
\* order, none left out and none twice, and each cursor stands after the
\* last line it returned.
C8_PullsInDocumentOrder ==
    /\ \A lines \in {DocumentLines(targetDoc)} : IsPrefix(targetPulls, lines)
    /\ \A lines \in {DocumentLines(sourceDoc)} : IsPrefix(sourcePulls, lines)
    /\ Len(targetPulls) = targetLineNum
    /\ Len(sourcePulls) = sourceLineNum
    /\ sourcePulls # <<>> => CursorAfter(LastSource, sourceCursor)
    /\ targetPulls # <<>> => CursorAfter(LastTarget, targetCursor)

\* C8 witness: fast-forward and main loop pulled three target lines, the
\* second inside a paragraph of two lines, and two source lines.
C8_Witness ==
    /\ startLoop >= 2
    /\ pc = "main"
    /\ Len(targetPulls) >= 3
    /\ targetPulls[2].Line = 1
    /\ Len(sourcePulls) >= 2

\* C9: inserting or removing a whitespace character anywhere, or changing the
\* case of an ASCII letter, leaves generateLineKey unchanged.
C9_KeyIgnoresWhitespaceAndCase ==
    lastOp \in {"insertWhitespace", "removeWhitespace", "changeCase"}
        => key = prevKey

\* C9 witness: a whitespace character was inserted and the text has one right
\* after a letter, inside the part the key is made of.
C9_Witness ==
    /\ lastOp = "insertWhitespace"
    /\ Len(key) >= 2
    /\ \E i \in 2..(Len(text) - 1) :
           /\ text[i] \in WhitespaceCharacters
           /\ IsAsciiLetter(text[i - 1])
           /\ IsAsciiLetter(text[i + 1])

\* C10: a prefix without ASCII letter leaves generateLineKey unchanged, and a
\* text without ASCII letter has the empty key.
C10_KeyIgnoresLetterlessPrefix ==
    /\ lastOp = "addPrefix" => key = prevKey
    /\ (\A i \in 1..Len(text) : ~IsAsciiLetter(text[i])) => key = <<>>

\* C10 witness: the enumeration marker "1. " was put before a text whose
\* key is not empty.
C10_Witness ==
    /\ lastOp = "addPrefix"
    /\ Len(text) >= 4
    /\ SubSeq(text, 1, 3) = <<49, 46, 32>>
    /\ key # <<>>

\* The positions of t that hold a quotation mark.
QuotePositions(t) == {i \in 1..Len(t) : t[i] \in QuoteCharacters}

\* t without the characters at the positions of S.
Without(t, S) ==
    LET kept == {i \in 1..Len(t) : i \notin S}
        nth(n) == CHOOSE i \in kept : Cardinality({j \in kept : j < i}) = n - 1
    IN  [n \in 1..Cardinality(kept) |-> t[nth(n)]]

\* The position of the first ASCII letter of t, or Len(t) + 1 if it has none.
FirstLetterPosition(t) ==
    IF \E i \in 1..Len(t) : IsAsciiLetter(t[i])
    THEN CHOOSE i \in 1..Len(t) :
            IsAsciiLetter(t[i]) /\ \A j \in 1..(i - 1) : ~IsAsciiLetter(t[j])
    ELSE Len(t) + 1

\* C11 as stated: inserting or deleting a quotation mark at any position
\* changes the key.
C11_Original ==
    lastOp \in {"insertQuote", "removeQuote"} => key # prevKey

\* C11 amended: two lines that differ only in quotation marks have different
\* keys, and AnalyzeLineMatch reports LinesMatch = false for them, exactly
\* when one of the differing quotation marks stands after the first ASCII
\* letter of the line; quotation marks before the first ASCII letter (or in a
\* line without ASCII letter) are dropped with everything else that stands
\* there, and the keys are equal.
C11_QuotesAfterFirstLetterCount ==
    /\ \A S \in SUBSET QuotePositions(text) :
           S # {} =>
               LET other == Without(text, S)
                   inKey == \E i \in S : i > FirstLetterPosition(text)
               IN  /\ (generateLineKey(other) # key) <=> inKey
                   /\ AnalyzeLineMatch(other, text, NilFeatures, FALSE).LinesMatch
                          <=> ~inKey
                   /\ AnalyzeLineMatch(text, other, NilFeatures, FALSE).LinesMatch
                          <=> ~inKey
    /\ (lastOp \in {"insertQuote", "removeQuote"} /\ key = prevKey) =>
           Cardinality(QuotePositions(key)) = Cardinality(QuotePositions(prevKey))

\* C11 witness: a quotation mark was inserted after the first letter and the
\* key changed; the text also has a quotation mark before its first letter.
C11_Witness ==
    /\ lastOp = "insertQuote"
    /\ key # prevKey
    /\ \E i, j \in QuotePositions(text) :
           i < FirstLetterPosition(text) /\ FirstLetterPosition(text) < j

\* t has no ASCII letter and no code point in U+4E00..U+9FFF.
HasNoScript(t) ==
    \A i \in 1..Len(t) : ~IsAsciiLetter(t[i]) /\ t[i] \notin 19968..40959

\* C12: a text without ASCII letter and without code point in U+4E00..U+9FFF
\* is classified Empty and has the empty key.
C12_NoScriptIsEmpty ==
    HasNoScript(text) =>
        /\ classifyLineType(text) = "Empty"
        /\ key = <<>>
        /\ generateLineKey(text) = <<>>

\* C12 witness: an edited text that is not blank, made of a digit, a dot and
\* other characters that are neither letters nor Chinese.
C12_Witness ==
    /\ lastOp # "none"
    /\ HasNoScript(text)
    /\ Len(text) >= 3
    /\ \E i, j \in 1..Len(text) : text[i] = 49 /\ text[j] = 46

\* t has a code point in U+4E00..U+9FFF.
HasChinese(t) == \E i \in 1..Len(t) : t[i] \in 19968..40959

\* AnalyzeLineMatch was called with the same text as source and as target.
SameTextAnalyzed == analysis.called /\ analysis.sourceText = analysis.targetText

\* C13 as stated: with identical source and target text the decision is
\* English, matching, no previous style, no empty line, whatever the text.
C13_Original ==
    SameTextAnalyzed =>
        /\ analysis.decision.LineType = "English"
        /\ analysis.decision.LinesMatch
        /\ ~analysis.decision.ShouldFollowPrevStyle
        /\ ~analysis.decision.ShouldAddEmptyLine

\* C13 amended: with identical source and target text x LinesMatch is true
\* for every x.  LineType = English, ShouldFollowPrevStyle = false and
\* ShouldAddEmptyLine = false hold when x has a non-empty key and no code
\* point in U+4E00..U+9FFF.  If x has such a code point the type is Chinese
\* or Mixed, ShouldAddEmptyLine is true and ShouldFollowPrevStyle is true
\* when the snapshot is not nil; if x has neither, the type is Empty and both
\* are false.
C13_SameTextDecision ==
    SameTextAnalyzed =>
        LET x == analysis.targetText
            d == analysis.decision
        IN  /\ d.LinesMatch
            /\ IF HasChinese(x)
               THEN /\ d.LineType \in {"Chinese", "Mixed"}
                    /\ d.ShouldAddEmptyLine
                    /\ d.ShouldFollowPrevStyle
                           <=> (analysis.previousFeatures # NilFeatures)
               ELSE /\ d.LineType =
                           IF generateLineKey(x) # <<>> THEN "English" ELSE "Empty"
                    /\ ~d.ShouldFollowPrevStyle
                    /\ ~d.ShouldAddEmptyLine

\* C13 witness: the same English text twice, with a snapshot and the flag set.
C13_Witness ==
    /\ SameTextAnalyzed
    /\ analysis.decision.LineType = "English"
    /\ analysis.decision.LinesMatch
    /\ analysis.previousFeatures # NilFeatures
    /\ analysis.lastProcessedWasChinese

\* C14: if the target text has a character in U+4E00..U+9FFF then
\* ShouldAddEmptyLine is true and ShouldFollowPrevStyle is true exactly when
\* the snapshot is not nil, whether the keys match or not; otherwise both
\* are false.
C14_ChineseTargetDecision ==
    analysis.called =>
        IF HasChinese(analysis.targetText)
        THEN /\ analysis.decision.ShouldAddEmptyLine
             /\ analysis.decision.ShouldFollowPrevStyle
                    <=> (analysis.previousFeatures # NilFeatures)
        ELSE /\ ~analysis.decision.ShouldAddEmptyLine
             /\ ~analysis.decision.ShouldFollowPrevStyle

\* C14 witness: a mixed target line whose key differs from the source key,
\* with a snapshot.
C14_Witness ==
    /\ analysis.called
    /\ HasChinese(analysis.targetText)
    /\ analysis.decision.LineType = "Mixed"
    /\ ~analysis.decision.LinesMatch
    /\ analysis.decision.ShouldFollowPrevStyle
    /\ analysis.decision.ShouldAddEmptyLine

\* C15: ShouldAdvanceSource is the flag passed in, whatever the texts, the
\* type of the line and the snapshot.
C15_AdvanceIsTheFlag ==
    analysis.called =>
        analysis.decision.ShouldAdvanceSource = analysis.lastProcessedWasChinese

\* C15 witness: the flag is set and the target line is English and matches.
C15_Witness ==
    /\ analysis.called
    /\ analysis.lastProcessedWasChinese
    /\ analysis.decision.ShouldAdvanceSource
    /\ analysis.decision.LineType = "English"
    /\ analysis.decision.LinesMatch

\* Called on cursor c, which has answered "end of document", the function
\* answers "end of document" again and again and leaves c where it is.
StaysExhausted(doc, c) ==
    \A r1 \in {getNextNonEmptyLine(doc, c)} :
        /\ r1 = [err |-> "end of document", cursor |-> c]
        /\ getNextNonEmptyLine(doc, r1.cursor) = r1

\* Cursor positions of a document, those the driver never reaches included:
\* every element and the end of the document, every
\* line of a paragraph of the model (none has more than two) and one past it.
CursorPositions(doc) ==
    [ElementIndex : 0..Len(doc), LineIndex : 0..2]

\* C16: once getNextNonEmptyLine has answered "end of document" for a
\* cursor, every later call on that cursor answers "end of document" and
\* leaves the cursor unchanged.  This is checked for the cursors of the run
\* and, once per pair of documents (they do not change during a run), for
\* every cursor position.
C16_ExhaustionIsIdempotent ==
    /\ exhausted = "source" => StaysExhausted(sourceDoc, sourceCursor)
    /\ exhausted = "target" => StaysExhausted(targetDoc, targetCursor)
    /\ insertRequests # <<>> => StaysExhausted(targetDoc, targetCursor)
    /\ (pc = "start" /\ startLoop = 1 /\ ~baseline.set) =>
       \A doc \in {sourceDoc, targetDoc} : \A c \in CursorPositions(doc) :
           \A r \in {getNextNonEmptyLine(doc, c)} :
               r.err = "end of document" => StaysExhausted(doc, r.cursor)

\* C16 witness: the target cursor of the main loop and the cursor of the
\* re-scan both ran to the end of a target of two elements.
C16_Witness ==
    /\ exhausted = "target"
    /\ pc = "done"
    /\ insertRequests # <<>>
    /\ Len(targetDoc) = 2
    /\ targetCursor.ElementIndex = Len(targetDoc)
    /\ targetPulls # <<>>

\* The text of a paragraph: the contents of its runs, one after the other.
RECURSIVE RawContent(_)
RawContent(runs) ==
    IF runs = <<>> THEN <<>> ELSE Head(runs).Content \o RawContent(Tail(runs))

\* Where line j (from 0) of a paragraph starts, counted from the start of the
\* paragraph: right after its j-th newline.
OffsetOfLine(raw, j) ==
    IF j = 0 THEN 0
    ELSE CHOOSE i \in 1..Len(raw) :
            /\ raw[i] = 10
            /\ Cardinality({m \in 1..i : raw[m] = 10}) = j

\* The start offset in the document of a line of DocumentLines(doc).
LineStartOffset(doc, ln) ==
    StartIndex(doc, ln.Element)
        + OffsetOfLine(RawContent(doc[ln.Element + 1].Elements), ln.Line)

\* C17 as stated: the tab insertions are made only after the main pass ended
\* by exhaustion, in strictly descending order of iteration, one for every
\* recorded iteration whose line exists in the target, each with the
\* recorded number of tabs at the start offset of its line, so that the
\* offsets of the batch never increase.
C17_DeferredPassOrder ==
    insertRequests # <<>> =>
        \A lines \in {DocumentLines(targetDoc)} :
        LET n == Len(insertRequests)
        IN  /\ loopExit \in {"source", "target"}
            /\ \A i \in 1..(n - 1) :
                   /\ insertRequests[i].loopID > insertRequests[i + 1].loopID
                   /\ insertRequests[i].index >= insertRequests[i + 1].index
            /\ {insertRequests[i].loopID : i \in 1..n}
                   = {k \in DOMAIN tabsToAddMap : k \in 1..Len(lines)}
            /\ \A i \in 1..n :
                   LET k == insertRequests[i].loopID IN
                   /\ insertRequests[i].text = RepeatTab(tabsToAddMap[k])
                   /\ insertRequests[i].index = LineStartOffset(targetDoc, lines[k])

\* The target line is of type Chinese or Mixed.
IsSecondary(ln) == classifyLineType(ln.Text) \in {"Chinese", "Mixed"}

\* How many of the first n pulled target lines are Chinese or Mixed, and how
\* many are not.
SecondaryCount(n) == Cardinality({i \in 1..n : IsSecondary(targetPulls[i])})
PrimaryCount(n) == Cardinality({i \in 1..n : ~IsSecondary(targetPulls[i])})

\* The source lines pulled after the initial read.
SourceAdvances == Len(sourcePulls) - 1

\* C18 as stated: the source lines pulled after the initial read are never
\* more than the Primary target lines processed so far.
C18_Original ==
    sourcePulls # <<>> => SourceAdvances <= PrimaryCount(Len(targetPulls))

\* C18 amended: the source cursor advances once per Chinese or Mixed target
\* line, at the start of the iteration that follows it: between iterations
\* the source lines pulled after the initial read are as many as the Chinese
\* or Mixed lines among the target lines before the latest one, and they are
\* never more than the Chinese or Mixed target lines processed so far.
C18_AdvanceFollowsSecondaryLine ==
    sourcePulls # <<>> =>
        LET n == Len(targetPulls) IN
        /\ SourceAdvances <= SecondaryCount(n)
        /\ n >= 1 => SourceAdvances >= SecondaryCount(n - 1)
        /\ (pc \in {"ff", "main"} /\ n >= 1) => SourceAdvances = SecondaryCount(n - 1)
        /\ exhausted = "target" => SourceAdvances = SecondaryCount(n)

\* C18 witness: two Chinese target lines in a row; the source advanced after
\* the first though no Primary line has been processed.
C18_Witness ==
    /\ pc = "main"
    /\ Len(targetPulls) = 2
    /\ IsSecondary(targetPulls[1])
    /\ IsSecondary(targetPulls[2])
    /\ Len(sourcePulls) = 2

\* The locals after the iteration that the run is about to make.
IterationStep(applyOk) ==
    IF pc = "main" THEN MainIterationStep(State, applyOk) ELSE FastForwardStep(State)

\* C19: an iteration pulls a source line if and only if the flag is true at
\* its start; with the flag false (as in iteration 1 and after a Primary
\* line) the source line, key, snapshot, line number and cursor stay as
\* they are, so the next target line meets the same source line.
C19_SourcePulledIffFlag ==
    pc \in {"ff", "main"} =>
        /\ targetPulls = <<>> => ~lastProcessedWasChinese
        /\ targetPulls # <<>> => (lastProcessedWasChinese <=> IsSecondary(LastTarget))
        /\ \A applyOk \in BOOLEAN : \A s \in {IterationStep(applyOk)} :
               IF lastProcessedWasChinese
               THEN \/ /\ s.exhausted = "source"
                       /\ s.sourcePulls = sourcePulls
                       /\ s.sourceLineNum = sourceLineNum
                    \/ /\ Len(s.sourcePulls) = Len(sourcePulls) + 1
                       /\ s.sourceLineNum = sourceLineNum + 1
                       /\ s.sourceLineInfo.Text = s.sourcePulls[Len(s.sourcePulls)].Text
                       /\ s.sourceKey = generateLineKey(s.sourceLineInfo.Text)
                       /\ s.sourceFeatures # NilFeatures
                       /\ s.sourceFeatures.Text = s.sourceLineInfo.Text
               ELSE /\ s.sourcePulls = sourcePulls
                    /\ s.sourceCursor = sourceCursor
                    /\ s.sourceLineInfo = sourceLineInfo
                    /\ s.sourceKey = sourceKey
                    /\ s.sourceFeatures = sourceFeatures
                    /\ s.sourceLineNum = sourceLineNum

\* C19 witness: two Primary target lines in a row were compared with source
\* line 1, and the source has a second line that was not pulled.
C19_Witness ==
    /\ pc = "main"
    /\ Len(targetPulls) = 2
    /\ ~IsSecondary(targetPulls[1])
    /\ ~IsSecondary(targetPulls[2])
    /\ sourceLineNum = 1
    /\ Len(DocumentLines(sourceDoc)) = 2

\* The target line the iteration pulled, if it pulled one.
PulledTarget(s) == s.targetPulls[Len(s.targetPulls)]

\* Some pulled target line of the given types matched its source line.
SomeLineMatched(types) ==
    \E i \in 1..Len(targetPulls) :
        /\ classifyLineType(targetPulls[i].Text) \in types
        /\ i < Len(targetPulls) \/ err.kind # "SyncError"

\* The retained snapshot changes only in an iteration whose target line has
\* one of the given types and matches; it is then the snapshot of the
\* current source line; it is nil until the first such match.
SnapshotFollows(types) ==
    /\ pc \in {"ff", "main"} =>
           \A applyOk \in BOOLEAN : \A s \in {IterationStep(applyOk)} :
               LET pulled == Len(s.targetPulls) = Len(targetPulls) + 1
                   matched == /\ pulled
                              /\ classifyLineType(PulledTarget(s).Text) \in types
                              /\ generateLineKey(PulledTarget(s).Text) = s.sourceKey
               IN  IF matched
                   THEN s.previousFeatures = s.sourceFeatures
                   ELSE s.previousFeatures = previousFeatures
    /\ (pc # "idle" /\ previousFeatures # NilFeatures) => SomeLineMatched(types)

\* C20 as stated: previousFeatures changes only on a Primary (English) target
\* line that matches; Chinese, Mixed and Empty-type lines leave it unchanged.
C20_Original == SnapshotFollows({"English"})

\* C20 amended: previousFeatures changes only in an iteration whose target
\* line is of English or Empty type and whose key matches the current source
\* key (for an Empty-type line both keys are empty), and is then set to the
\* current source line's snapshot; iterations on Chinese or Mixed target
\* lines leave it unchanged, and it is nil until the first such match.
C20_SnapshotSetOnMatchOnly == SnapshotFollows({"English", "Empty"})

\* C20 witness: a target line without letter matched a source line without
\* letter and set the snapshot; the Chinese line after it left it alone.
C20_Witness ==
    /\ pc = "main"
    /\ Len(targetPulls) = 2
    /\ classifyLineType(targetPulls[1].Text) = "Empty"
    /\ IsSecondary(targetPulls[2])
    /\ previousFeatures # NilFeatures
    /\ previousFeatures = sourceFeatures

\* The main loop has just completed an iteration (numbered loopID - 1) on the
\* target line pulled last.
AfterMainIteration == pc = "main" /\ loopID > startLoop /\ targetPulls # <<>>

\* The formatting requests issued in iteration k.
RequestsOf(k) == {i \in 1..Len(formatRequests) : formatRequests[i].loopID = k}

\* The requests of the iteration just completed are for the line pulled last
\* and the range of its element, with the given snapshot.
RequestsAreFor(reqs, features) ==
    \A i \in reqs :
        /\ formatRequests[i].features = features
        /\ formatRequests[i].text = LastTarget.Text
        /\ formatRequests[i].targetLine = targetLineNum
        /\ formatRequests[i].startIndex = StartIndex(targetDoc, LastTarget.Element)
        /\ formatRequests[i].endIndex = EndIndex(targetDoc, LastTarget.Element)

\* The tab map has an entry for iteration k exactly when the snapshot has
\* leading tabs, and the entry is their number.
TabEntryFollows(k, features) ==
    /\ k \in DOMAIN tabsToAddMap
           <=> (features # NilFeatures /\ features.LeadingTabs > 0)
    /\ k \in DOMAIN tabsToAddMap => tabsToAddMap[k] = features.LeadingTabs

RequestKeysMatch(types) ==
    \A i \in 1..Len(formatRequests) :
        classifyLineType(formatRequests[i].text) \in types =>
            /\ formatRequests[i].features # NilFeatures
            /\ generateLineKey(formatRequests[i].text)
                   = generateLineKey(formatRequests[i].features.Text)

\* A target line of the main pass that is not Chinese or Mixed and whose key
\* matches gets exactly one formatting request, with the snapshot of the
\* current source line; the tab map gets an entry if and only if that
\* snapshot has leading tabs; the flag is false afterwards.
MatchedLineUsesSourceSnapshot ==
    (AfterMainIteration /\ ~LastTargetSecondary) =>
        /\ generateLineKey(LastTarget.Text) = sourceKey
        /\ sourceKey = generateLineKey(sourceLineInfo.Text)
        /\ sourceFeatures.Text = sourceLineInfo.Text
        /\ Cardinality(RequestsOf(loopID - 1)) = 1
        /\ RequestsAreFor(RequestsOf(loopID - 1), sourceFeatures)
        /\ TabEntryFollows(loopID - 1, sourceFeatures)
        /\ ~lastProcessedWasChinese
        /\ err = Running

\* C22 as stated: every formatting request carries the snapshot of a source
\* line whose key is the key of the target line of the request.
C22_Original ==
    /\ RequestKeysMatch({"English", "Empty", "Chinese", "Mixed"})
    /\ MatchedLineUsesSourceSnapshot

\* C22 amended: every formatting request issued for a target line that is
\* not Chinese or Mixed carries the snapshot of a source line whose key is
\* the key of that target line, and such a line of the main pass gets
\* exactly one request, with the current source snapshot, a tab-map entry
\* iff that snapshot has leading tabs, and the flag false.  A request for a
\* Chinese or Mixed line carries the retained snapshot of a source line
\* whose key may differ from the key of the target line.
C22_MatchedLineCarriesSourceSnapshot ==
    /\ RequestKeysMatch({"English", "Empty"})
    /\ MatchedLineUsesSourceSnapshot
    /\ \A i \in 1..Len(formatRequests) :
           /\ formatRequests[i].features # NilFeatures
           /\ \E j \in 1..Len(sourcePulls) :
                  formatRequests[i].features.Text = sourcePulls[j].Text

\* C22 witness: two English target lines in a row matched the same source
\* line, which has a leading tab; each got its request and its tab entry.
C22_Witness ==
    /\ AfterMainIteration
    /\ Len(formatRequests) = 2
    /\ \A i \in 1..2 : classifyLineType(formatRequests[i].text) = "English"
    /\ formatRequests[1].loopID # formatRequests[2].loopID
    /\ sourceFeatures.LeadingTabs > 0
    /\ DOMAIN tabsToAddMap = {formatRequests[1].loopID, formatRequests[2].loopID}

\* t has an ASCII letter.
HasLetter(t) == \E i \in 1..Len(t) : IsAsciiLetter(t[i])

\* t from its first ASCII letter on, without the whitespace characters.
KeyBody(t) ==
    SelectSeq(SubSeq(t, FirstLetterPosition(t), Len(t)),
              LAMBDA r : r \notin WhitespaceCharacters)

\* What follows from the first ASCII letter of t on is one character and a
\* full stop, and nothing else.
LoneMarker(t) == HasLetter(t) /\ Len(KeyBody(t)) = 2 /\ KeyBody(t)[2] = 46

\* The line type for a text with or without the two scripts.
ScriptType(primary, secondary) ==
    IF primary /\ secondary THEN "Mixed"
    ELSE IF secondary THEN "Chinese"
    ELSE IF primary THEN "English"
    ELSE "Empty"

\* C23 as stated: a text that is not blank has primary script exactly when it
\* has an ASCII letter.
C23_Original ==
    TrimSpace(text) # <<>> =>
        classifyLineType(text) = ScriptType(HasLetter(text), HasChinese(text))

\* C23 amended: a text has primary script exactly when its key is not empty,
\* that is when it has an ASCII letter and what follows from the first ASCII
\* letter on, whitespace removed, is not one character and a full stop; a
\* text that is not blank is Mixed, Chinese, English or Empty by that and by
\* whether it has a character in U+4E00..U+9FFF.
C23_PrimaryScriptIsNonEmptyKey ==
    /\ (key # <<>>) <=> (HasLetter(text) /\ ~LoneMarker(text))
    /\ TrimSpace(text) # <<>> =>
           classifyLineType(text)
               = ScriptType(HasLetter(text) /\ ~LoneMarker(text), HasChinese(text))

\* C23 witness: an edited text with an ASCII letter and a Chinese character
\* that is classified Chinese, its letter being a lone marker.
C23_Witness ==
    /\ lastOp # "none"
    /\ HasLetter(text)
    /\ HasChinese(text)
    /\ LoneMarker(text)
    /\ classifyLineType(text) = "Chinese"

\* Source texts of other calls: the empty text, the texts of one character,
\* and the target text itself.
OtherSourceTexts == {<<>>, analysis.targetText} \cup {<<r>> : r \in ArgAlphabet}

\* C24: the LineType of a decision depends on the target text alone: it is
\* the type of the target text, and a call of AnalyzeLineMatch with the same
\* target text and another source text, or another snapshot and flag,
\* returns the same LineType.
C24_LineTypeOfTargetAlone ==
    analysis.called =>
        /\ analysis.decision.LineType = classifyLineType(analysis.targetText)
        /\ \A s \in OtherSourceTexts :
               AnalyzeLineMatch(s, analysis.targetText, analysis.previousFeatures,
                                analysis.lastProcessedWasChinese).LineType
                   = analysis.decision.LineType
        /\ \A p \in Snapshots, f \in BOOLEAN :
               AnalyzeLineMatch(analysis.sourceText, analysis.targetText, p, f).LineType
                   = analysis.decision.LineType

\* C24 witness: a call with a Chinese target and an English source that does
\* not match, with a snapshot and the flag set.
C24_Witness ==
    /\ analysis.called
    /\ analysis.decision.LineType = "Chinese"
    /\ classifyLineType(analysis.sourceText) = "English"
    /\ ~analysis.decision.LinesMatch
    /\ analysis.previousFeatures # NilFeatures
    /\ analysis.lastProcessedWasChinese

\* The errors of a stream that cannot be read: no first source line, a stream
\* at its end while fast-forwarding, a document without structural element.
ReadErrors ==
    { Errorf("error reading first source line"),
      Errorf("reached end of source document while fast-forwarding"),
      Errorf("reached end of target document while fast-forwarding"),
      Errorf("error reading target document while fast-forwarding"),
      Errorf("error reading target document") }

\* The run returned a SyncError: no loop exit, no deferred pass.
EndedByMismatch ==
    /\ err.kind = "SyncError"
    /\ loopExit = "none"
    /\ insertRequests = <<>>

\* The main loop ended because a stream was exhausted, then the deferred pass
\* returned nil or its own error.
EndedByExhaustion ==
    /\ loopExit \in {"source", "target"}
    /\ exhausted = loopExit
    /\ err \in DeferredPassResults

\* The run returned a plain error from a read, before any request.
EndedByReadError ==
    /\ loopExit = "none"
    /\ err \in ReadErrors
    /\ formatRequests = <<>>
    /\ insertRequests = <<>>

\* C25 as stated: a run that has returned has exhausted the source with
\* success, exhausted the target with success, or failed with a SyncError.
C25_Original ==
    pc = "done" =>
        \/ loopExit = "source" /\ err = NoError
        \/ loopExit = "target" /\ err = NoError
        \/ err.kind = "SyncError"

\* C25 amended: every run terminates, and it ends in exactly one of: a
\* SyncError at the first mismatch; the main loop left because the source or
\* the target is exhausted, after which the deferred pass runs and the run
\* returns nil or the error of that pass; or a plain error because the first
\* source line cannot be read, a stream ends while fast-forwarding, or the
\* target document has no structural element.  The run is over with the
\* first error, and until it returns there is none.
C25_RunEndsInOneOutcome ==
    /\ [](pc = "done" =>
             \/ EndedByMismatch
             \/ EndedByExhaustion
             \/ EndedByReadError)
    /\ [](pc \in {"start", "ff", "main", "tabs"} => err = Running)
    /\ [](pc = "tabs" => loopExit \in {"source", "target"})
    /\ (pc = "start") ~> (pc = "done")

\* C25 witness: a run that was fast-forwarded ended by exhaustion of the
\* target after a formatting request, and the deferred pass failed.
C25_Witness ==
    /\ pc = "done"
    /\ startLoop >= 2
    /\ loopExit = "target"
    /\ formatRequests # <<>>
    /\ err = Errorf("failed to insert tabs")


\* Position a comes before position b in a document.
Before(a, b) ==
    \/ a.Element < b.Element
    \/ a.Element = b.Element /\ a.Line < b.Line

\* C26: the driver retries nothing.  The formatting requests of a run are in
\* strictly increasing order of iteration and of target line, so an iteration
\* and a target line get at most one request, whether it succeeded or failed;
\* each request is for the target line pulled in its iteration; and the target
\* lines pulled are at strictly increasing positions of the document, so no
\* line is pulled twice.
C26_NoRetry ==
    /\ \A i, j \in 1..Len(formatRequests) :
           i < j => /\ formatRequests[i].loopID < formatRequests[j].loopID
                    /\ formatRequests[i].targetLine < formatRequests[j].targetLine
    /\ \A i \in 1..Len(formatRequests) :
           /\ formatRequests[i].targetLine \in 1..Len(targetPulls)
           /\ formatRequests[i].targetLine = formatRequests[i].loopID
           /\ formatRequests[i].text = targetPulls[formatRequests[i].targetLine].Text
           /\ formatRequests[i].loopID >= startLoop
    /\ \A i, j \in 1..Len(targetPulls) :
           i < j => Before(targetPulls[i], targetPulls[j])
    /\ Len(targetPulls) = targetLineNum

\* C26 witness: the request of the latest iteration failed, an earlier line
\* has its request too, and the run goes on.
C26_Witness ==
    /\ pc = "main"
    /\ lastApplyErr
    /\ Len(formatRequests) >= 2
    /\ Len(targetPulls) >= 2


\* The target line pulled last is classified Empty and was pulled by the main
\* loop, whose iteration on it the run has not gone past.
EmptyLineDecided ==
    /\ targetPulls # <<>>
    /\ classifyLineType(LastTarget.Text) = "Empty"
    /\ targetLineNum >= startLoop
    /\ pc \in {"main", "done"}
    /\ loopExit = "none"
    /\ err.kind \in {"running", "SyncError"}

\* C27: a target line classified Empty is handled in the main loop as an
\* English line is.  Its key is empty.  With a non-empty key of the current
\* source line the run ends with a SyncError carrying the two line numbers
\* and the two keys, and no request is issued for the line.  With an empty
\* key of the current source line the lines match: exactly one request with
\* the snapshot of the current source line is issued for the line, the
\* snapshot is retained, the tab map follows it, and the flag is false.
C27_EmptyLineTakesPrimaryBranch ==
    EmptyLineDecided =>
        /\ generateLineKey(LastTarget.Text) = <<>>
        /\ sourceKey = generateLineKey(sourceLineInfo.Text)
        /\ linesMatch(sourceKey, <<>>) <=> sourceKey = <<>>
        /\ IF sourceKey # <<>>
           THEN /\ pc = "done"
                /\ err = [kind |-> "SyncError",
                          SourceLine |-> sourceLineNum, TargetLine |-> targetLineNum,
                          SourceKey |-> sourceKey, TargetKey |-> <<>>]
                /\ RequestsOf(targetLineNum) = {}
                /\ targetLineNum \notin DOMAIN tabsToAddMap
           ELSE /\ pc = "main"
                /\ err = Running
                /\ loopID = targetLineNum + 1
                /\ Cardinality(RequestsOf(targetLineNum)) = 1
                /\ RequestsAreFor(RequestsOf(targetLineNum), sourceFeatures)
                /\ sourceFeatures = extractLineFeatures(sourceDoc, sourceLineInfo)
                /\ previousFeatures = sourceFeatures
                /\ TabEntryFollows(targetLineNum, sourceFeatures)
                /\ ~lastProcessedWasChinese

\* C27 witness: after a first target line was formatted, a second one that is
\* classified Empty met the same source line, whose key is not empty, and
\* ended the run with a SyncError.
C27_Witness ==
    /\ EmptyLineDecided
    /\ err.kind = "SyncError"
    /\ sourceKey # <<>>
    /\ targetLineNum = 2
    /\ sourceLineNum = 1
    /\ Len(formatRequests) = 1
    /\ formatRequests[1].targetLine = 1


\* C28: at the head of every iteration, fast-forwarded or not, targetLineNum
\* is loopID - 1, so the line pulled in iteration loopID is target line
\* loopID.  Every key of the tab map is the number of a target line pulled in
\* the main pass, written in the iteration that issued the request for that
\* line, with the leading tabs of the snapshot of that request.  The deferred
\* pass numbers the lines of the target from 1 again: each of its insertions
\* is for a key of the tab map, at the start index of the element of the
\* target line pulled under that number, with the tabs noted for it, and when
\* it sends insertions it sends one for every key, from the last down.
C28_TabMapKeyIsTargetLine ==
    /\ pc \in {"ff", "main"} => targetLineNum = loopID - 1
    /\ \A k \in DOMAIN tabsToAddMap :
           /\ k \in startLoop..targetLineNum
           /\ tabsToAddMap[k] > 0
           /\ \E i \in RequestsOf(k) :
                  /\ formatRequests[i].targetLine = k
                  /\ formatRequests[i].text = targetPulls[k].Text
                  /\ formatRequests[i].features.LeadingTabs = tabsToAddMap[k]
    /\ \A i \in 1..Len(insertRequests) :
           /\ insertRequests[i].loopID \in DOMAIN tabsToAddMap
           /\ insertRequests[i].index
                  = StartIndex(targetDoc, targetPulls[insertRequests[i].loopID].Element)
           /\ insertRequests[i].text = RepeatTab(tabsToAddMap[insertRequests[i].loopID])
    /\ \A i, j \in 1..Len(insertRequests) :
           i < j => insertRequests[i].loopID > insertRequests[j].loopID
    /\ insertRequests # <<>> =>
           {insertRequests[i].loopID : i \in 1..Len(insertRequests)} = DOMAIN tabsToAddMap

\* C28 witness: a run fast-forwarded past the first target line noted tabs for
\* the second one, and the deferred pass inserted them at that line.
C28_Witness ==
    /\ pc = "done"
    /\ err = NoError
    /\ startLoop >= 2
    /\ DOMAIN tabsToAddMap = {startLoop}
    /\ targetLineNum = startLoop
    /\ Len(insertRequests) = 1
    /\ insertRequests[1].index = StartIndex(targetDoc, LastTarget.Element)


\* A stream answered "end of document" in a fast-forwarded iteration: the
\* first source line was read, and iteration startLoop was not reached.
ExhaustedWhileFastForwarding ==
    /\ exhausted # "none"
    /\ sourcePulls # <<>>
    /\ loopID < startLoop

\* C29: when a stream is exhausted while fast-forwarding, the run returns at
\* once with an error that is not a SyncError and names the stream; it has
\* issued no formatting request, noted no tabs, and does not enter the main
\* loop or the deferred pass.
C29_ExhaustionWhileFastForwarding ==
    ExhaustedWhileFastForwarding =>
        /\ pc = "done"
        /\ err.kind = "error"
        /\ err = IF exhausted = "source"
                 THEN Errorf("reached end of source document while fast-forwarding")
                 ELSE Errorf("reached end of target document while fast-forwarding")
        /\ loopExit = "none"
        /\ formatRequests = <<>>
        /\ tabsToAddMap = <<>>
        /\ insertRequests = <<>>

\* C29 witness: the target ended in the second fast-forwarded iteration.
C29_Witness ==
    /\ ExhaustedWhileFastForwarding
    /\ exhausted = "target"
    /\ loopID = 2
    /\ targetLineNum = 1
    /\ pc = "done"


\* The larger of two numbers.
Max(a, b) == IF a >= b THEN a ELSE b

\* C30: once the first source line is read, sourceLineNum is at least 1 and
\* at most targetLineNum + 1, and it is the number of source lines pulled.
\* At the head of an iteration of either loop it is at most the number of
\* target lines pulled, or 1 before any target line is pulled: the first
\* iteration pulls no source line, and every later one pulls at most one
\* before it pulls its target line.
C30_SourceAtMostOneAhead ==
    /\ sourcePulls # <<>> =>
           /\ sourceLineNum >= 1
           /\ sourceLineNum <= targetLineNum + 1
           /\ sourceLineNum = Len(sourcePulls)
    /\ pc \in {"ff", "main"} =>
           /\ sourcePulls # <<>>
           /\ sourceLineNum <= Max(1, targetLineNum)
           /\ loopID <= 2 => sourceLineNum = 1
    /\ sourcePulls = <<>> => sourceLineNum = 0 /\ targetLineNum = 0

\* C30 witness: the source is one line ahead of the target after a source
\* line was pulled in an iteration that found the target at its end.
C30_Witness ==
    /\ sourceLineNum = targetLineNum + 1
    /\ targetLineNum >= 1
    /\ exhausted = "target"
    /\ startLoop >= 2

====
